---- MODULE Spec2Model ----
(***************************************************************************)
(* Model of the rectangle collider engine of src/src/colliders.py:         *)
(* RectColliderObject (a body) and RectColliderSpace (the registry and the *)
(* per-tick update), with collision_rect_rect of src/src/maths.py.         *)
(*                                                                         *)
(* Python objects are modelled as a heap.  A RectColliderObject holds      *)
(* REFERENCES to four Vector2D objects (_pos, _prev_pos, speed,            *)
(* _resistance); `vecs` is the heap of Vector2D objects and `objs` the     *)
(* heap of RectColliderObject, whose vector fields are indices into        *)
(* `vecs`.  Every assignment `o.pos.x = e` of the source is a write to the *)
(* referenced cell of `vecs`, so two bodies that hold the same Vector2D    *)
(* see each other's writes, as in Python.                                  *)
(*                                                                         *)
(* Numbers are integers.  Python floats are exact on integers only up to   *)
(* 2^53; every sum and difference of the source is rounded as a float      *)
(* rounds it, with a significand of Mantissa bits instead of 53 (fl), so   *)
(* that it is exact below 2^Mantissa and rounded above.                    *)
(* `center` is carried doubled (2*pos + size) because the source only      *)
(* compares centers with `<`.                                              *)
(***************************************************************************)
EXTENDS Integers, Sequences, FiniteSets, TLC

VARIABLES
    vecs,                 \* heap of Vector2D objects: Seq([x, y])
    objs,                 \* heap of RectColliderObject: Seq(record of slots)
    gravity,              \* RectColliderSpace._gravity
    static_colliders,     \* RectColliderSpace._static_colliders   (Seq of object refs)
    dynamic_colliders,    \* RectColliderSpace._dynamic_colliders
    kinematic_colliders,  \* RectColliderSpace._kinematic_colliders
    ticks,                \* number of update() calls so far (bounded by MaxTicks)
    last_op,              \* history: the operation that produced this state
    old,                  \* history: heap and collections before that operation
    mid,                  \* history: `vecs` after the two integration loops of the last update()
    calls,                \* history: the _process_* calls of the last update()
    pc,                   \* where the thread that runs update() is inside update()
    seen,                 \* history: the last position the render loop read
    promise               \* a BasePromise, the threads that call it and its workers

vars == <<vecs, objs, gravity, static_colliders, dynamic_colliders,
          kinematic_colliders, ticks, last_op, old, mid, calls, pc, seen, promise>>

(***************************************************************************)
(* Bounds of the model.                                                    *)
(***************************************************************************)
MaxObjs == 3          \* RectColliderObject instances ever created (Spec)
MaxColliders == 2     \* entries held by the Space at once (Spec)
MaxTicks == 1         \* update() calls in one behaviour (Spec)

STATIC == "STATIC"
DYNAMIC == "DYNAMIC"
KINEMATIC == "KINEMATIC"
COLLIDER_TYPES == {STATIC, DYNAMIC, KINEMATIC}

None == "None"

Vector2D(x, y) == [x |-> x, y |-> y]

Min(a, b) == IF a < b THEN a ELSE b
Max(a, b) == IF a > b THEN a ELSE b

(***************************************************************************)
(* Float arithmetic: the result of + and - is the exact result rounded to  *)
(* the nearest number with a significand of Mantissa bits, ties to even.   *)
(***************************************************************************)
Mantissa == 24

MaxExact == 2 ^ Mantissa

Abs(n) == IF n < 0 THEN 0 - n ELSE n

\* the number of low bits of a that do not fit the significand
RECURSIVE ExcessBits(_)
ExcessBits(a) == IF a < MaxExact THEN 0 ELSE 1 + ExcessBits(a \div 2)

fl(n) ==
    IF Abs(n) < MaxExact THEN n
    ELSE LET a    == Abs(n)
             unit == 2 ^ ExcessBits(a)
             q    == a \div unit
             r    == a % unit
             up   == (2 * r > unit) \/ (2 * r = unit /\ q % 2 = 1)
             m    == (IF up THEN q + 1 ELSE q) * unit
         IN  IF n < 0 THEN 0 - m ELSE m

\* mutant of collision_rect_rect: rectangles that touch count as overlapping
collision_rect_rect_Touching(rect1, rect2) ==
    /\ rect1[1] <= fl(rect2[1] + rect2[3])
    /\ fl(rect1[1] + rect1[3]) >= rect2[1]
    /\ rect1[2] <= fl(rect2[2] + rect2[4])
    /\ fl(rect1[2] + rect1[4]) >= rect2[2]

(***************************************************************************)
(* maths.collision_rect_rect: rectangles are <<x, y, width, height>>.      *)
(***************************************************************************)
collision_rect_rect(rect1, rect2) ==
    /\ rect1[1] < fl(rect2[1] + rect2[3])
    /\ fl(rect1[1] + rect1[3]) > rect2[1]
    /\ rect1[2] < fl(rect2[2] + rect2[4])
    /\ fl(rect1[2] + rect1[4]) > rect2[2]

(***************************************************************************)
(* Coefficients (bouncy, resistance) are fractions: the number c stands    *)
(* for c / CoefUnit, so that 0.3 is 3 and 1 is CoefUnit.  The product of a *)
(* length or velocity by a coefficient is rounded to the nearest number    *)
(* of the model, ties to even, as a float product is rounded to the        *)
(* nearest float.                                                          *)
(***************************************************************************)
CoefUnit == 10

One == CoefUnit

RoundDiv(n, d) ==
    LET a  == Abs(n)
        q  == a \div d
        r  == a % d
        up == (2 * r > d) \/ (2 * r = d /\ q % 2 = 1)
        m  == IF up THEN q + 1 ELSE q
    IN  IF n < 0 THEN 0 - m ELSE m

\* a * c for a coefficient c
Mul(a, c) == RoundDiv(a * c, CoefUnit)

(***************************************************************************)
(* RectColliderObject: property getters read through the heap `v`,         *)
(* setters return the heap after the write.                                *)
(***************************************************************************)
up_axis_y(v, o) == v[o.pos].y
down_axis_y(v, o) == fl(v[o.pos].y + o.height)
left_axis_x(v, o) == v[o.pos].x
right_axis_x(v, o) == fl(v[o.pos].x + o.width)

\* center, doubled: Vector2D(pos.x + width / 2, pos.y + height / 2) * 2
center2(v, o) == Vector2D(fl(2 * v[o.pos].x + o.width), fl(2 * v[o.pos].y + o.height))

\* mutant of set_up_axis_y: the height is subtracted, as for the bottom edge
set_up_axis_y_AsBottom(v, o, val) == [v EXCEPT ![o.pos].y = val - o.height]

set_up_axis_y(v, o, val) == [v EXCEPT ![o.pos].y = val]

\* mutant of set_down_axis_y: the height is not subtracted
set_down_axis_y_NoHeight(v, o, val) == [v EXCEPT ![o.pos].y = val]

set_down_axis_y(v, o, val) == [v EXCEPT ![o.pos].y = fl(val - o.height)]
set_left_axis_x(v, o, val) == [v EXCEPT ![o.pos].x = val]

\* mutant of set_right_axis_x: the width is not subtracted
set_right_axis_x_NoWidth(v, o, val) == [v EXCEPT ![o.pos].x = val]

set_right_axis_x(v, o, val) == [v EXCEPT ![o.pos].x = fl(val - o.width)]

\* the list [o.pos.x, o.pos.y, o.width, o.height] built in update()
RectOf(v, o) == <<v[o.pos].x, v[o.pos].y, o.width, o.height>>

\* set_position: writes into the Vector2D that _pos refers to
set_position(v, o, x, y) ==
    LET v1 == [v EXCEPT ![o.pos].x = x]
    IN  [v1 EXCEPT ![o.pos].y = y]

\* set_speed: writes into the Vector2D that speed refers to
set_speed(v, o, speed) ==
    LET v1 == [v EXCEPT ![o.speed].x = speed.x]
    IN  [v1 EXCEPT ![o.speed].y = speed.y]

\* uuid4(): a value no caller-supplied id equals; n is the new object's heap index
uuid4(n) == "uuid-" \o ToString(n)

\* set_id
set_id(o, id, n) == [o EXCEPT !.id = IF id = None THEN uuid4(n) ELSE id]

(***************************************************************************)
(* RectColliderObject.__init__: allocates four fresh Vector2D objects.     *)
(* A "world" w is a record [vecs, objs]; the result is the world with the  *)
(* new object at index Len(w.objs) + 1.                                    *)
(***************************************************************************)
Construct(w, width, height, type, bouncy, resistance) ==
    LET n == Len(w.vecs)
    IN  [vecs |-> w.vecs \o <<Vector2D(0, 0), Vector2D(0, 0), Vector2D(0, 0),
                              Vector2D(resistance, resistance)>>,
         objs |-> Append(w.objs,
                    [width |-> width, height |-> height, type |-> type,
                     id |-> None, pos |-> n + 1, prev_pos |-> n + 2,
                     speed |-> n + 3, bouncy |-> bouncy, resistance |-> n + 4])]

(***************************************************************************)
(* RectColliderObject.new: obj = copy(self) is a SHALLOW copy, the new     *)
(* object's slots refer to the same Vector2D objects as self's; then       *)
(* set_position, set_speed and set_id act on obj.                          *)
(***************************************************************************)
CopyObj(o) == o

New(w, t, x, y, speed, id) ==
    LET n   == Len(w.objs) + 1
        obj == CopyObj(w.objs[t])
        v1  == set_position(w.vecs, obj, x, y)
        v2  == set_speed(v1, obj, speed)
    IN  [vecs |-> v2, objs |-> Append(w.objs, set_id(obj, id, n))]

(***************************************************************************)
(* RectColliderSpace.update, first loop (lines 210-214), one iteration.    *)
(***************************************************************************)
KinematicIntegrate(v, kc) ==
    LET v1 == [v  EXCEPT ![kc.prev_pos].x = v[kc.pos].x]
        v2 == [v1 EXCEPT ![kc.prev_pos].y = v1[kc.pos].y]
        v3 == [v2 EXCEPT ![kc.pos].x = fl(v2[kc.pos].x + v2[kc.speed].x)]
    IN  [v3 EXCEPT ![kc.pos].y = fl(v3[kc.pos].y + v3[kc.speed].y)]

RECURSIVE KinematicLoop(_, _, _)
KinematicLoop(v, O, list) ==
    IF list = <<>> THEN v
    ELSE KinematicLoop(KinematicIntegrate(v, O[Head(list)]), O, Tail(list))

\* mutant of DynamicIntegrate: the position is advanced by the velocity of the
\* previous tick, gravity being added to the velocity afterwards
DynamicIntegrate_PositionFirst(v, dc, g) ==
    LET v1 == [v  EXCEPT ![dc.pos].x = fl(v[dc.pos].x + v[dc.speed].x)]
        v2 == [v1 EXCEPT ![dc.pos].y = fl(v1[dc.pos].y + v1[dc.speed].y)]
        v3 == [v2 EXCEPT ![dc.speed].x = fl(v2[dc.speed].x + g.x)]
    IN  [v3 EXCEPT ![dc.speed].y = fl(v3[dc.speed].y + g.y)]

(***************************************************************************)
(* RectColliderSpace.update, second loop (lines 216-220), one iteration.   *)
(***************************************************************************)
DynamicIntegrate(v, dc, g) ==
    LET v1 == [v  EXCEPT ![dc.speed].x = fl(v[dc.speed].x + g.x)]
        v2 == [v1 EXCEPT ![dc.speed].y = fl(v1[dc.speed].y + g.y)]
        v3 == [v2 EXCEPT ![dc.pos].x = fl(v2[dc.pos].x + v2[dc.speed].x)]
    IN  [v3 EXCEPT ![dc.pos].y = fl(v3[dc.pos].y + v3[dc.speed].y)]

RECURSIVE DynamicLoop(_, _, _, _)
DynamicLoop(v, O, list, g) ==
    IF list = <<>> THEN v
    ELSE DynamicLoop(DynamicIntegrate(v, O[Head(list)], g), O, Tail(list), g)

\* the heap after the two integration loops
Integrate(v, O, kcs, dcs, g) == DynamicLoop(KinematicLoop(v, O, kcs), O, dcs, g)

(***************************************************************************)
(* overlap_x / overlap_y as computed at the head of both _process_*        *)
(***************************************************************************)
OverlapX(v, a, b) ==
    fl(Min(right_axis_x(v, a), right_axis_x(v, b)) - Max(left_axis_x(v, a), left_axis_x(v, b)))
OverlapY(v, a, b) ==
    fl(Min(down_axis_y(v, a), down_axis_y(v, b)) - Max(up_axis_y(v, a), up_axis_y(v, b)))

\* mutant of StaticTakesXBranch: a tie goes to the x branch
StaticTakesXBranch_TieToX(overlap_x, overlap_y) == overlap_x <= overlap_y

\* `if overlap_x < overlap_y` of _process_static_collision (line 237)
StaticTakesXBranch(overlap_x, overlap_y) == overlap_x < overlap_y

\* mutant of ProcessStaticCollision: the x branch multiplies velocity.x by
\* bouncy instead of -bouncy (no reflection)
ProcessStaticCollision_NoReflect(v, dc, static) ==
    LET overlap_x == OverlapX(v, dc, static)
        overlap_y == OverlapY(v, dc, static)
    IN  IF StaticTakesXBranch(overlap_x, overlap_y)
        THEN LET v1 == IF center2(v, dc).x < center2(v, static).x
                       THEN set_right_axis_x(v, dc, left_axis_x(v, static))
                       ELSE set_left_axis_x(v, dc, right_axis_x(v, static))
             IN  [v1 EXCEPT ![dc.speed].x = Mul(v1[dc.speed].x, dc.bouncy)]
        ELSE LET v2 == IF center2(v, dc).y < center2(v, static).y
                       THEN LET v1 == set_down_axis_y(v, dc, up_axis_y(v, static))
                            IN  [v1 EXCEPT ![dc.speed].x =
                                      Mul(v1[dc.speed].x, v1[static.resistance].x)]
                       ELSE set_up_axis_y(v, dc, down_axis_y(v, static))
             IN  [v2 EXCEPT ![dc.speed].y = Mul(v2[dc.speed].y, 0 - dc.bouncy)]

\* mutant of ProcessStaticCollision: the correction is applied to the Static
\* body (it is pushed below the Dynamic one) instead of the Dynamic body
ProcessStaticCollision_MovesStatic(v, dc, static) ==
    set_up_axis_y(v, static, down_axis_y(v, dc))

\* mutant of ProcessStaticCollision: landing on top applies no friction
\* (velocity.x is not multiplied by the Static body's resistance.x)
ProcessStaticCollision_NoFriction(v, dc, static) ==
    LET overlap_x == OverlapX(v, dc, static)
        overlap_y == OverlapY(v, dc, static)
    IN  IF StaticTakesXBranch(overlap_x, overlap_y)
        THEN LET v1 == IF center2(v, dc).x < center2(v, static).x
                       THEN set_right_axis_x(v, dc, left_axis_x(v, static))
                       ELSE set_left_axis_x(v, dc, right_axis_x(v, static))
             IN  [v1 EXCEPT ![dc.speed].x = Mul(v1[dc.speed].x, 0 - dc.bouncy)]
        ELSE LET v2 == IF center2(v, dc).y < center2(v, static).y
                       THEN set_down_axis_y(v, dc, up_axis_y(v, static))
                       ELSE set_up_axis_y(v, dc, down_axis_y(v, static))
             IN  [v2 EXCEPT ![dc.speed].y = Mul(v2[dc.speed].y, 0 - dc.bouncy)]

(***************************************************************************)
(* RectColliderSpace._process_static_collision (lines 233-249)             *)
(***************************************************************************)
ProcessStaticCollision(v, dc, static) ==
    LET overlap_x == OverlapX(v, dc, static)
        overlap_y == OverlapY(v, dc, static)
    IN  IF StaticTakesXBranch(overlap_x, overlap_y)
        THEN LET v1 == IF center2(v, dc).x < center2(v, static).x
                       THEN set_right_axis_x(v, dc, left_axis_x(v, static))
                       ELSE set_left_axis_x(v, dc, right_axis_x(v, static))
             IN  [v1 EXCEPT ![dc.speed].x = Mul(v1[dc.speed].x, 0 - dc.bouncy)]
        ELSE LET v2 == IF center2(v, dc).y < center2(v, static).y
                       THEN LET v1 == set_down_axis_y(v, dc, up_axis_y(v, static))
                            IN  [v1 EXCEPT ![dc.speed].x =
                                      Mul(v1[dc.speed].x, v1[static.resistance].x)]
                       ELSE set_up_axis_y(v, dc, down_axis_y(v, static))
             IN  [v2 EXCEPT ![dc.speed].y = Mul(v2[dc.speed].y, 0 - dc.bouncy)]

\* was_above of _process_kinematic_collision (lines 257-259)
WasAbove(v, dc, kinematic) ==
    /\ down_axis_y(v, dc) <= v[kinematic.prev_pos].y
    /\ right_axis_x(v, dc) > left_axis_x(v, kinematic)
    /\ left_axis_x(v, dc) < right_axis_x(v, kinematic)

\* the condition of line 264
Riding(v, dc, kinematic) ==
    /\ WasAbove(v, dc, kinematic)
    /\ OverlapY(v, dc, kinematic) > 0
    /\ v[dc.speed].y >= 0

(***************************************************************************)
(* RectColliderSpace._process_kinematic_collision (lines 251-284)          *)
(***************************************************************************)
ProcessKinematicCollision(v, dc, kinematic) ==
    LET platform_move == Vector2D(fl(v[kinematic.pos].x - v[kinematic.prev_pos].x),
                                  fl(v[kinematic.pos].y - v[kinematic.prev_pos].y))
        overlap_x == OverlapX(v, dc, kinematic)
        overlap_y == OverlapY(v, dc, kinematic)
    IN  IF Riding(v, dc, kinematic)
        THEN LET v1 == set_down_axis_y(v, dc, up_axis_y(v, kinematic))
                 v2 == [v1 EXCEPT ![dc.pos].x = fl(v1[dc.pos].x + platform_move.x)]
                 v3 == [v2 EXCEPT ![dc.pos].y = fl(v2[dc.pos].y + platform_move.y)]
                 v4 == [v3 EXCEPT ![dc.speed].y = 0]
             IN  [v4 EXCEPT ![dc.speed].x =
                      Mul(v4[dc.speed].x, v4[kinematic.resistance].x)]
        ELSE IF overlap_x < overlap_y
             THEN LET v1 == IF center2(v, dc).x < center2(v, kinematic).x
                            THEN set_right_axis_x(v, dc, left_axis_x(v, kinematic))
                            ELSE set_left_axis_x(v, dc, right_axis_x(v, kinematic))
                  IN  [v1 EXCEPT ![dc.speed].x = Mul(v1[dc.speed].x, 0 - dc.bouncy)]
             ELSE IF center2(v, dc).y < center2(v, kinematic).y
                  THEN LET v1 == set_down_axis_y(v, dc, up_axis_y(v, kinematic))
                       IN  [v1 EXCEPT ![dc.speed].y = 0]
                  ELSE LET v1 == set_up_axis_y(v, dc, down_axis_y(v, kinematic))
                       IN  [v1 EXCEPT ![dc.speed].y = Mul(v1[dc.speed].y, 0 - dc.bouncy)]

(***************************************************************************)
(* RectColliderSpace.update, third loop (lines 222-231).  dc_rect is built *)
(* once per dynamic collider, before its two inner loops, and is not       *)
(* rebuilt after a resolution has moved the collider.                      *)
(* The loops thread a record st = [v, log]: v is the heap, log the history *)
(* of the _process_* calls made so far in this update() (which handler,    *)
(* on which two objects, the heap before and after the call).              *)
(***************************************************************************)
Call(kind, dc, other, before, after) ==
    [kind |-> kind, dc |-> dc, other |-> other, before |-> before, after |-> after]

RECURSIVE StaticLoop(_, _, _, _, _)
StaticLoop(st, O, dc, dc_rect, list) ==
    IF list = <<>> THEN st
    ELSE LET sc == Head(list)
             st1 == IF collision_rect_rect(dc_rect, RectOf(st.v, O[sc]))
                    THEN LET v1 == ProcessStaticCollision(st.v, O[dc], O[sc])
                         IN  [v |-> v1,
                              log |-> Append(st.log, Call("static", dc, sc, st.v, v1))]
                    ELSE st
         IN  StaticLoop(st1, O, dc, dc_rect, Tail(list))

RECURSIVE KinematicCollisionLoop(_, _, _, _, _)
KinematicCollisionLoop(st, O, dc, dc_rect, list) ==
    IF list = <<>> THEN st
    ELSE LET kc == Head(list)
             st1 == IF collision_rect_rect(dc_rect, RectOf(st.v, O[kc]))
                    THEN LET v1 == ProcessKinematicCollision(st.v, O[dc], O[kc])
                         IN  [v |-> v1,
                              log |-> Append(st.log, Call("kinematic", dc, kc, st.v, v1))]
                    ELSE st
         IN  KinematicCollisionLoop(st1, O, dc, dc_rect, Tail(list))

\* one iteration of `for dc in self._dynamic_colliders` (lines 222-231)
ResolveOne(st, O, dc, scs, kcs) ==
    LET dc_rect == RectOf(st.v, O[dc])
    IN  KinematicCollisionLoop(StaticLoop(st, O, dc, dc_rect, scs), O, dc, dc_rect, kcs)

RECURSIVE ResolveLoop(_, _, _, _, _)
ResolveLoop(st, O, list, scs, kcs) ==
    IF list = <<>> THEN st
    ELSE ResolveLoop(ResolveOne(st, O, Head(list), scs, kcs), O, Tail(list), scs, kcs)

\* the whole of update(): the heap after one tick, and the calls it made
UpdateRun(v, O, scs, dcs, kcs, g) ==
    ResolveLoop([v |-> Integrate(v, O, kcs, dcs, g), log |-> <<>>], O, dcs, scs, kcs)

(***************************************************************************)
(* Registry of RectColliderSpace.                                          *)
(***************************************************************************)
\* get_colliders
get_colliders(scs, dcs, kcs) == scs \o dcs \o kcs

\* get_collider_by_id: the first collider whose id equals `id`, else None (0)
NoObj == 0
RECURSIVE FirstWithId(_, _, _)
FirstWithId(O, list, id) ==
    IF list = <<>> THEN NoObj
    ELSE IF O[Head(list)].id = id THEN Head(list)
    ELSE FirstWithId(O, Tail(list), id)

get_collider_by_id(O, scs, dcs, kcs, id) == FirstWithId(O, get_colliders(scs, dcs, kcs), id)

\* list.remove(x): drops the first occurrence (the caller checks membership)
RECURSIVE ListRemove(_, _)
ListRemove(list, x) ==
    IF list = <<>> THEN <<>>
    ELSE IF Head(list) = x THEN Tail(list)
    ELSE <<Head(list)>> \o ListRemove(Tail(list), x)

InList(list, x) == \E i \in 1..Len(list) : list[i] = x

\* the objects a list holds
Elems(list) == {list[i] : i \in 1..Len(list)}

(***************************************************************************)
(* Inputs of the registry specification Spec.                              *)
(***************************************************************************)
Widths == {1}
Heights == {1}
Bouncies == {One}
Resistances == {One}
Positions == {0, 1}
Speeds == {Vector2D(0, 0), Vector2D(1, 0)}
Ids == {"a"}
Gravities == {Vector2D(0, 0), Vector2D(0, 1)}

Op(name, obj, id, err) == [name |-> name, obj |-> obj, id |-> id, err |-> err]

Snapshot == [vecs |-> vecs, objs |-> objs, static |-> static_colliders,
             dynamic |-> dynamic_colliders, kinematic |-> kinematic_colliders]

NoMid == <<>>

\* no update() is running: the thread is between two calls
Idle == [phase |-> "idle", i |-> 0, j |-> 0, dc_rect |-> <<>>]

\* the render loop has read nothing yet
NoSeen == <<>>

\* no BasePromise has been constructed
NoPromise == <<>>

(***************************************************************************)
(* RectColliderSpace.__init__(gravity): three empty lists.                 *)
(***************************************************************************)
Init ==
    /\ vecs = <<>>
    /\ objs = <<>>
    /\ gravity \in Gravities
    /\ static_colliders = <<>>
    /\ dynamic_colliders = <<>>
    /\ kinematic_colliders = <<>>
    /\ ticks = 0
    /\ last_op = Op("init", NoObj, None, FALSE)
    /\ old = [vecs |-> <<>>, objs |-> <<>>, static |-> <<>>, dynamic |-> <<>>,
              kinematic |-> <<>>]
    /\ mid = NoMid
    /\ calls = <<>>
    /\ pc = Idle
    /\ seen = NoSeen
    /\ promise = NoPromise

\* RectColliderObject(width, height, type, bouncy, resistance)
DoConstruct ==
    /\ Len(objs) < MaxObjs
    /\ \E width \in Widths, height \in Heights, type \in COLLIDER_TYPES,
          bouncy \in Bouncies, resistance \in Resistances :
          LET w == Construct([vecs |-> vecs, objs |-> objs],
                             width, height, type, bouncy, resistance)
          IN  /\ vecs' = w.vecs
              /\ objs' = w.objs
              /\ last_op' = Op("construct", Len(objs) + 1, None, FALSE)
    /\ old' = Snapshot
    /\ mid' = NoMid
    /\ calls' = <<>>
    /\ UNCHANGED <<gravity, static_colliders, dynamic_colliders, kinematic_colliders, ticks>>
    /\ UNCHANGED <<pc, seen, promise>>

\* t.new(x, y, speed, id)
DoNew ==
    /\ Len(objs) < MaxObjs
    /\ \E t \in 1..Len(objs), x \in Positions, y \in Positions,
          speed \in Speeds, id \in Ids \cup {None} :
          LET w == New([vecs |-> vecs, objs |-> objs], t, x, y, speed, id)
          IN  /\ vecs' = w.vecs
              /\ objs' = w.objs
              /\ last_op' = Op("new", t, id, FALSE)
    /\ old' = Snapshot
    /\ mid' = NoMid
    /\ calls' = <<>>
    /\ UNCHANGED <<gravity, static_colliders, dynamic_colliders, kinematic_colliders, ticks>>
    /\ UNCHANGED <<pc, seen, promise>>

NumColliders == Len(static_colliders) + Len(dynamic_colliders) + Len(kinematic_colliders)

\* RectColliderSpace.add_collider(collider)
AddCollider ==
    /\ NumColliders < MaxColliders
    /\ \E c \in 1..Len(objs) :
          /\ static_colliders' = IF objs[c].type = STATIC
                                 THEN Append(static_colliders, c) ELSE static_colliders
          /\ dynamic_colliders' = IF objs[c].type = DYNAMIC
                                  THEN Append(dynamic_colliders, c) ELSE dynamic_colliders
          /\ kinematic_colliders' = IF objs[c].type = KINEMATIC
                                    THEN Append(kinematic_colliders, c) ELSE kinematic_colliders
          /\ last_op' = Op("add", c, objs[c].id, FALSE)
    /\ old' = Snapshot
    /\ mid' = NoMid
    /\ calls' = <<>>
    /\ UNCHANGED <<vecs, objs, gravity, ticks>>
    /\ UNCHANGED <<pc, seen, promise>>

\* mutant of OfType: the type of the colliders is not looked at
OfType_Any(O, colliders, type) == colliders

\* the generator `c for c in colliders if c.type == type` of add_colliders
OfType(O, colliders, type) == SelectSeq(colliders, LAMBDA c : O[c].type = type)

\* add_colliders: each list is extended by the colliders of its type, in order
add_colliders(O, scs, dcs, kcs, colliders) ==
    [static |-> scs \o OfType(O, colliders, STATIC),
     dynamic |-> dcs \o OfType(O, colliders, DYNAMIC),
     kinematic |-> kcs \o OfType(O, colliders, KINEMATIC)]

\* the lists of objects a caller may pass to add_colliders
ColliderLists(n) == UNION { [1..k -> 1..Len(objs)] : k \in 0..n }

\* RectColliderSpace.add_colliders(colliders)
AddColliders ==
    /\ NumColliders < MaxColliders
    /\ \E colliders \in ColliderLists(MaxColliders - NumColliders) :
          LET r == add_colliders(objs, static_colliders, dynamic_colliders,
                                 kinematic_colliders, colliders)
          IN  /\ static_colliders' = r.static
              /\ dynamic_colliders' = r.dynamic
              /\ kinematic_colliders' = r.kinematic
              /\ last_op' = Op("add_colliders", NoObj, None, FALSE)
    /\ old' = Snapshot
    /\ mid' = NoMid
    /\ calls' = <<>>
    /\ UNCHANGED <<vecs, objs, gravity, ticks>>
    /\ UNCHANGED <<pc, seen, promise>>

\* mutant of RemoveResult: removing a body that is not in its list raises
\* nothing (as list.discard would)
RemoveResult_NoError(c) ==
    [err |-> FALSE,
     static |-> IF objs[c].type = STATIC
                THEN ListRemove(static_colliders, c) ELSE static_colliders,
     dynamic |-> IF objs[c].type = DYNAMIC
                 THEN ListRemove(dynamic_colliders, c) ELSE dynamic_colliders,
     kinematic |-> IF objs[c].type = KINEMATIC
                   THEN ListRemove(kinematic_colliders, c) ELSE kinematic_colliders]

\* the three lists after remove_collider(c); list.remove raises ValueError
\* when c is not in the list of its type, and then nothing has changed
RemoveResult(c) ==
    LET list == IF objs[c].type = STATIC THEN static_colliders
                ELSE IF objs[c].type = DYNAMIC THEN dynamic_colliders
                ELSE kinematic_colliders
        found == InList(list, c)
    IN  [err |-> ~found,
         static |-> IF found /\ objs[c].type = STATIC
                    THEN ListRemove(static_colliders, c) ELSE static_colliders,
         dynamic |-> IF found /\ objs[c].type = DYNAMIC
                     THEN ListRemove(dynamic_colliders, c) ELSE dynamic_colliders,
         kinematic |-> IF found /\ objs[c].type = KINEMATIC
                       THEN ListRemove(kinematic_colliders, c) ELSE kinematic_colliders]

\* RectColliderSpace.remove_collider(collider)
RemoveCollider ==
    /\ \E c \in 1..Len(objs) :
          LET r == RemoveResult(c)
          IN  /\ static_colliders' = r.static
              /\ dynamic_colliders' = r.dynamic
              /\ kinematic_colliders' = r.kinematic
              /\ last_op' = Op("remove", c, objs[c].id, r.err)
    /\ old' = Snapshot
    /\ mid' = NoMid
    /\ calls' = <<>>
    /\ UNCHANGED <<vecs, objs, gravity, ticks>>
    /\ UNCHANGED <<pc, seen, promise>>

\* RectColliderSpace.remove_collider_by_id(id)
RemoveColliderById ==
    /\ \E id \in Ids :
          LET c == get_collider_by_id(objs, static_colliders, dynamic_colliders,
                                      kinematic_colliders, id)
          IN  /\ IF c # NoObj
                 THEN LET r == RemoveResult(c)
                      IN  /\ static_colliders' = r.static
                          /\ dynamic_colliders' = r.dynamic
                          /\ kinematic_colliders' = r.kinematic
                 ELSE UNCHANGED <<static_colliders, dynamic_colliders, kinematic_colliders>>
              /\ last_op' = Op("remove_by_id", c, id, FALSE)
    /\ old' = Snapshot
    /\ mid' = NoMid
    /\ calls' = <<>>
    /\ UNCHANGED <<vecs, objs, gravity, ticks>>
    /\ UNCHANGED <<pc, seen, promise>>

\* RectColliderSpace.update(), at most n times in a behaviour
UpdateUpTo(n) ==
    /\ ticks < n
    /\ ticks' = ticks + 1
    /\ mid' = Integrate(vecs, objs, kinematic_colliders, dynamic_colliders, gravity)
    /\ LET st == UpdateRun(vecs, objs, static_colliders, dynamic_colliders,
                           kinematic_colliders, gravity)
       IN  /\ vecs' = st.v
           /\ calls' = st.log
    /\ last_op' = Op("update", NoObj, None, FALSE)
    /\ old' = Snapshot
    /\ UNCHANGED <<objs, gravity, static_colliders, dynamic_colliders, kinematic_colliders>>
    /\ UNCHANGED <<pc, seen, promise>>

Update == UpdateUpTo(MaxTicks)

Next ==
    \/ DoConstruct
    \/ DoNew
    \/ AddCollider
    \/ AddColliders
    \/ RemoveCollider
    \/ RemoveColliderById
    \/ Update

Spec == Init /\ [][Next]_vars

(***************************************************************************)
(* Scenes.  A scene is what the example of                                 *)
(* src/examples/ex_3_colliders_physic.py/main.py builds before its loop:   *)
(* a Space with a gravity and bodies each made by                          *)
(*     cs.add_collider(RectColliderObject(w, h, type, b, r).new(x, y, v, id)) *)
(* so every body of a scene has its own template and its own vectors.      *)
(* A body definition is the record of the arguments of the two calls.      *)
(***************************************************************************)
BodyDef(width, height, type, bouncy, resistance, x, y, speed, id) ==
    [width |-> width, height |-> height, type |-> type, bouncy |-> bouncy,
     resistance |-> resistance, x |-> x, y |-> y, speed |-> speed, id |-> id]

EmptyWorld == [vecs |-> <<>>, objs |-> <<>>]

\* RectColliderObject(...).new(...): the derived body is the last object
MakeBody(w, b) ==
    LET w1 == Construct(w, b.width, b.height, b.type, b.bouncy, b.resistance)
    IN  New(w1, Len(w1.objs), b.x, b.y, b.speed, b.id)

RECURSIVE BuildWorld(_, _)
BuildWorld(w, defs) ==
    IF defs = <<>> THEN w ELSE BuildWorld(MakeBody(w, Head(defs)), Tail(defs))

\* add_collider on each derived body in turn: the list of one type
RECURSIVE AddedOfType(_, _, _)
AddedOfType(defs, type, n) ==
    IF defs = <<>> THEN <<>>
    ELSE (IF Head(defs).type = type THEN <<2 * n>> ELSE <<>>)
         \o AddedOfType(Tail(defs), type, n + 1)

\* the state after RectColliderSpace(g) and the add_collider calls of a scene
SceneInit(g, defs) ==
    LET w == BuildWorld(EmptyWorld, defs)
    IN  /\ vecs = w.vecs
        /\ objs = w.objs
        /\ gravity = g
        /\ static_colliders = AddedOfType(defs, STATIC, 1)
        /\ dynamic_colliders = AddedOfType(defs, DYNAMIC, 1)
        /\ kinematic_colliders = AddedOfType(defs, KINEMATIC, 1)
        /\ ticks = 0
        /\ last_op = Op("init", NoObj, None, FALSE)
        /\ old = [vecs |-> w.vecs, objs |-> w.objs,
                  static |-> AddedOfType(defs, STATIC, 1),
                  dynamic |-> AddedOfType(defs, DYNAMIC, 1),
                  kinematic |-> AddedOfType(defs, KINEMATIC, 1)]
        /\ mid = NoMid
        /\ calls = <<>>
        /\ pc = Idle
        /\ seen = NoSeen
        /\ promise = NoPromise

(***************************************************************************)
(* SpecScene: one Dynamic body, one Static body and optionally a second    *)
(* Static body or a Kinematic body, anywhere in a small window; update().  *)
(***************************************************************************)
SceneTicks == 1

SceneGravities == {Vector2D(0, 0), Vector2D(0, 1)}

SceneDynamics ==
    { BodyDef(sz, sz, DYNAMIC, b, One, x, y, Vector2D(vx, vy), "person") :
        sz \in {1, 2}, b \in {0, One}, x \in 0..2, y \in 0..2,
        vx \in {0, 1, 2}, vy \in {0, 1} }

SceneStatics ==
    { BodyDef(sh[1], sh[2], STATIC, One, r, x, y, Vector2D(0, 0), "ground") :
        sh \in {<<1, 3>>, <<3, 1>>, <<2, 2>>}, r \in {0, One}, x \in {1, 2}, y \in {1, 2} }

SceneThirds ==
    { BodyDef(2, 2, STATIC, One, One, x, y, Vector2D(0, 0), "block") :
        x \in {0, 3}, y \in {0, 3} }
    \cup
    { BodyDef(2, 1, KINEMATIC, One, r, x, y, v, "moved_box") :
        r \in {One}, x \in {1, 2}, y \in {1, 2},
        v \in {Vector2D(0, 0), Vector2D(1, 0), Vector2D(0, 0 - 1)} }

InitScene ==
    \E g \in SceneGravities, d \in SceneDynamics, s \in SceneStatics :
        \/ SceneInit(g, <<s, d>>)
        \/ \E t \in SceneThirds : SceneInit(g, <<s, t, d>>)

UpdateScene == UpdateUpTo(SceneTicks)

NextScene == UpdateScene

SpecScene == InitScene /\ [][NextScene]_vars


(***************************************************************************)
(* SpecCarry: a Dynamic body standing on a Kinematic platform that moves   *)
(* with velocity (3, 0), as the person on moved_box of the example.        *)
(***************************************************************************)
CarryTicks == 3

CarryGravities == {Vector2D(0, 0), Vector2D(0, 1)}

CarryPlatforms ==
    { BodyDef(12, 2, KINEMATIC, One, r, 0, 5, Vector2D(3, 0), "moved_box") : r \in {0, One} }

\* the rider stands on the platform: its bottom is the platform's top (y = 5)
CarryRiders ==
    { BodyDef(sz, sz, DYNAMIC, b, One, x, 5 - sz, Vector2D(vx, 0), "person") :
        sz \in {1, 2}, b \in {0, One}, x \in 0..4, vx \in {0 - 1, 0, 1, 3} }

InitCarry ==
    \E g \in CarryGravities, k \in CarryPlatforms, d \in CarryRiders :
        SceneInit(g, <<k, d>>)

UpdateCarry == UpdateUpTo(CarryTicks)

NextCarry == UpdateCarry

SpecCarry == InitCarry /\ [][NextCarry]_vars

(***************************************************************************)
(* SpecDrop: a Dynamic body released at rest above a Static floor, under   *)
(* downward gravity.                                                       *)
(***************************************************************************)
DropTicks == 6

DropGravities == {Vector2D(0, 1), Vector2D(0, 2)}

\* the floor's top is at y = 6
DropFloors ==
    { BodyDef(6, t, STATIC, One, One, 0, 6, Vector2D(0, 0), "ground") : t \in {1, 2, 4} }

\* <<width, height, y>> with the body's bottom at or above the floor's top
DropShapes == { q \in {1, 2} \X {1, 2} \X (1..5) : q[3] + q[2] <= 6 }

DropBodies ==
    { BodyDef(q[1], q[2], DYNAMIC, b, One, x, q[3], Vector2D(0, 0), "person") :
        q \in DropShapes, b \in {0, One}, x \in {0, 2, 5} }

InitDrop ==
    \E g \in DropGravities, f \in DropFloors, d \in DropBodies :
        SceneInit(g, <<f, d>>)

UpdateDrop == UpdateUpTo(DropTicks)

NextDrop == UpdateDrop

SpecDrop == InitDrop /\ [][NextDrop]_vars

(***************************************************************************)
(* SpecPair: a Dynamic body without velocity and one Static or Kinematic   *)
(* body without velocity, no gravity: update() moves nothing and makes the *)
(* overlap test of line 226 (or 230) on the two rectangles as placed.      *)
(***************************************************************************)
PairTicks == 1

PairSizes == {1, 2}

PairPositions == 0..4

PairDynamics ==
    { BodyDef(w, h, DYNAMIC, One, One, x, y, Vector2D(0, 0), "person") :
        w \in PairSizes, h \in PairSizes, x \in PairPositions, y \in PairPositions }

PairOthers ==
    { BodyDef(w, h, type, One, One, 2, 2, Vector2D(0, 0), "other") :
        w \in PairSizes, h \in PairSizes, type \in {STATIC, KINEMATIC} }

InitPair ==
    \E d \in PairDynamics, o \in PairOthers : SceneInit(Vector2D(0, 0), <<o, d>>)

UpdatePair == UpdateUpTo(PairTicks)

NextPair == UpdatePair

SpecPair == InitPair /\ [][NextPair]_vars

(***************************************************************************)
(* SpecSizes: bodies constructed with any size a caller may pass (the      *)
(* constructor and set_size take the numbers as they come), added to the   *)
(* Space and updated.                                                      *)
(***************************************************************************)
SizeObjs == 2
SizeTicks == 1

Sizes == {0 - 1, 1}

\* RectColliderObject(width, height, type)
DoConstructSized ==
    /\ Len(objs) < SizeObjs
    /\ \E width \in Sizes, height \in Sizes, type \in COLLIDER_TYPES :
          LET w == Construct([vecs |-> vecs, objs |-> objs], width, height, type, One, One)
          IN  /\ vecs' = w.vecs
              /\ objs' = w.objs
              /\ last_op' = Op("construct", Len(objs) + 1, None, FALSE)
    /\ old' = Snapshot
    /\ mid' = NoMid
    /\ calls' = <<>>
    /\ UNCHANGED <<gravity, static_colliders, dynamic_colliders, kinematic_colliders, ticks>>
    /\ UNCHANGED <<pc, seen, promise>>

\* RectColliderObject.set_size(width, height)
set_size(o, width, height) == [o EXCEPT !.width = width, !.height = height]

SetSize ==
    /\ \E c \in 1..Len(objs), width \in Sizes, height \in Sizes :
          /\ objs' = [objs EXCEPT ![c] = set_size(objs[c], width, height)]
          /\ last_op' = Op("set_size", c, objs[c].id, FALSE)
    /\ old' = Snapshot
    /\ mid' = NoMid
    /\ calls' = <<>>
    /\ UNCHANGED <<vecs, gravity, static_colliders, dynamic_colliders,
                   kinematic_colliders, ticks>>
    /\ UNCHANGED <<pc, seen, promise>>

UpdateSized == UpdateUpTo(SizeTicks)

NextSizes ==
    \/ DoConstructSized
    \/ SetSize
    \/ AddCollider
    \/ UpdateSized

SpecSizes == Init /\ [][NextSizes]_vars

(***************************************************************************)
(* SpecEdges: one body, whose edges are set through the four edge          *)
(* properties.  Sizes and values are floats: small integers, and numbers   *)
(* around 2^Mantissa where the spacing of the floats is 2 or more.         *)
(***************************************************************************)
Big == 2 * MaxExact

EdgeSizes == {1, 3, Big}

EdgeValues == {0 - 3, 1, 6, Big}

EdgeBodies ==
    { BodyDef(w, h, DYNAMIC, One, One, x, y, Vector2D(1, 2), "person") :
        w \in EdgeSizes, h \in EdgeSizes, x \in {0, 5}, y \in {0, 5} }

InitEdges == \E b \in EdgeBodies : SceneInit(Vector2D(0, 0), <<b>>)

EdgeOp(name, obj, val) ==
    [name |-> name, obj |-> obj, id |-> None, err |-> FALSE, val |-> val]

\* c.up_axis_y = val, c.down_axis_y = val, c.left_axis_x = val, c.right_axis_x = val
SetEdge(name, c, val) ==
    /\ vecs' = CASE name = "up_axis_y"    -> set_up_axis_y(vecs, objs[c], val)
                 [] name = "down_axis_y"  -> set_down_axis_y(vecs, objs[c], val)
                 [] name = "left_axis_x"  -> set_left_axis_x(vecs, objs[c], val)
                 [] name = "right_axis_x" -> set_right_axis_x(vecs, objs[c], val)
    /\ last_op' = EdgeOp(name, c, val)
    /\ old' = Snapshot
    /\ mid' = NoMid
    /\ calls' = <<>>
    /\ UNCHANGED <<objs, gravity, static_colliders, dynamic_colliders,
                   kinematic_colliders, ticks>>
    /\ UNCHANGED <<pc, seen, promise>>

SetUpAxisY == \E c \in 1..Len(objs), val \in EdgeValues : SetEdge("up_axis_y", c, val)
SetDownAxisY == \E c \in 1..Len(objs), val \in EdgeValues : SetEdge("down_axis_y", c, val)
SetLeftAxisX == \E c \in 1..Len(objs), val \in EdgeValues : SetEdge("left_axis_x", c, val)
SetRightAxisX == \E c \in 1..Len(objs), val \in EdgeValues : SetEdge("right_axis_x", c, val)

NextEdges ==
    \/ SetUpAxisY
    \/ SetDownAxisY
    \/ SetLeftAxisX
    \/ SetRightAxisX

SpecEdges == InitEdges /\ [][NextEdges]_vars

(***************************************************************************)
(* SpecThreads: the example runs update() in the thread of an              *)
(* AppSubProcess (src/src/app.py, lines 420-431: a daemon Thread calling   *)
(* the callable in a loop) while the main thread runs the render loop      *)
(* (main.py, lines 70-73); nothing synchronises the two.  update() is      *)
(* modelled one loop iteration at a time, pc being the position of its     *)
(* thread: the loop it is in, the index i of the item of the outer loop    *)
(* and j of the inner loop it is about to run, and the dc_rect it built.   *)
(* Python may switch threads between any two bytecodes, in particular      *)
(* between two iterations.                                                 *)
(***************************************************************************)
ThreadTicks == 1

\* mutant of LoopOrder: the Dynamic bodies are integrated first
LoopOrder_DynamicFirst == <<"dynamic", "kinematic", "resolve">>

\* the three for statements of update() (lines 210, 216 and 222), in order
LoopOrder == <<"kinematic", "dynamic", "resolve">>

\* the two for statements inside the third one (lines 225 and 229), in order
InnerOrder == <<"static_tests", "kinematic_tests">>

LoopIndex(phase) == CHOOSE k \in 1..Len(LoopOrder) : LoopOrder[k] = phase
InnerIndex(phase) == CHOOSE m \in 1..Len(InnerOrder) : InnerOrder[m] = phase

\* the list each for statement runs over
LoopList(phase) ==
    IF phase = "kinematic" THEN kinematic_colliders ELSE dynamic_colliders
InnerList(phase) ==
    IF phase = "static_tests" THEN static_colliders ELSE kinematic_colliders

\* the position before item i of the k-th for statement: an exhausted loop
\* is left for the next one, and update() returns after the last
RECURSIVE EnterLoop(_, _)
EnterLoop(k, i) ==
    IF k > Len(LoopOrder) THEN Idle
    ELSE IF i > Len(LoopList(LoopOrder[k])) THEN EnterLoop(k + 1, 1)
    ELSE [phase |-> LoopOrder[k], i |-> i, j |-> 0, dc_rect |-> <<>>]

\* the position before item j of the m-th inner for statement, for the
\* Dynamic body of index i
RECURSIVE EnterInner(_, _, _, _)
EnterInner(m, i, j, dc_rect) ==
    IF m > Len(InnerOrder) THEN EnterLoop(LoopIndex("resolve"), i + 1)
    ELSE IF j > Len(InnerList(InnerOrder[m])) THEN EnterInner(m + 1, i, 1, dc_rect)
    ELSE [phase |-> InnerOrder[m], i |-> i, j |-> j, dc_rect |-> dc_rect]

\* the thread calls cs.update()
BeginUpdate ==
    /\ pc = Idle
    /\ ticks < ThreadTicks
    /\ ticks' = ticks + 1
    /\ pc' = EnterLoop(1, 1)
    /\ last_op' = Op("update", NoObj, None, FALSE)
    /\ old' = Snapshot
    /\ mid' = NoMid
    /\ calls' = <<>>
    /\ UNCHANGED <<vecs, objs, gravity, static_colliders, dynamic_colliders,
                   kinematic_colliders, seen>>
    /\ UNCHANGED promise

\* one iteration of the loop of lines 210-214
StepKinematic ==
    /\ pc.phase = "kinematic"
    /\ LET kc == kinematic_colliders[pc.i]
           v1 == KinematicIntegrate(vecs, objs[kc])
       IN  /\ vecs' = v1
           /\ calls' = Append(calls, Call("integrate_kinematic", kc, NoObj, vecs, v1))
    /\ pc' = EnterLoop(LoopIndex("kinematic"), pc.i + 1)
    /\ UNCHANGED <<objs, gravity, static_colliders, dynamic_colliders,
                   kinematic_colliders, ticks, last_op, old, mid, seen>>
    /\ UNCHANGED promise

\* one iteration of the loop of lines 216-220
StepDynamic ==
    /\ pc.phase = "dynamic"
    /\ LET dc == dynamic_colliders[pc.i]
           v1 == DynamicIntegrate(vecs, objs[dc], gravity)
       IN  /\ vecs' = v1
           /\ calls' = Append(calls, Call("integrate_dynamic", dc, NoObj, vecs, v1))
    /\ pc' = EnterLoop(LoopIndex("dynamic"), pc.i + 1)
    /\ UNCHANGED <<objs, gravity, static_colliders, dynamic_colliders,
                   kinematic_colliders, ticks, last_op, old, mid, seen>>
    /\ UNCHANGED promise

\* line 223: dc_rect = [dc.pos.x, dc.pos.y, dc.width, dc.height]
StepDcRect ==
    /\ pc.phase = "resolve"
    /\ pc' = EnterInner(1, pc.i, 1, RectOf(vecs, objs[dynamic_colliders[pc.i]]))
    /\ UNCHANGED <<vecs, objs, gravity, static_colliders, dynamic_colliders,
                   kinematic_colliders, ticks, last_op, old, mid, calls, seen>>
    /\ UNCHANGED promise

\* one iteration of the loop of lines 225-227
StepStaticTest ==
    /\ pc.phase = "static_tests"
    /\ LET dc == dynamic_colliders[pc.i]
           sc == static_colliders[pc.j]
           st == StaticLoop([v |-> vecs, log |-> calls], objs, dc, pc.dc_rect, <<sc>>)
       IN  /\ vecs' = st.v
           /\ calls' = st.log
    /\ pc' = EnterInner(InnerIndex("static_tests"), pc.i, pc.j + 1, pc.dc_rect)
    /\ UNCHANGED <<objs, gravity, static_colliders, dynamic_colliders,
                   kinematic_colliders, ticks, last_op, old, mid, seen>>
    /\ UNCHANGED promise

\* one iteration of the loop of lines 229-231
StepKinematicTest ==
    /\ pc.phase = "kinematic_tests"
    /\ LET dc == dynamic_colliders[pc.i]
           kc == kinematic_colliders[pc.j]
           st == KinematicCollisionLoop([v |-> vecs, log |-> calls], objs, dc,
                                        pc.dc_rect, <<kc>>)
       IN  /\ vecs' = st.v
           /\ calls' = st.log
    /\ pc' = EnterInner(InnerIndex("kinematic_tests"), pc.i, pc.j + 1, pc.dc_rect)
    /\ UNCHANGED <<objs, gravity, static_colliders, dynamic_colliders,
                   kinematic_colliders, ticks, last_op, old, mid, seen>>
    /\ UNCHANGED promise

\* the main thread, inside cs.render: _draw_collider reads collider.pos
\* (colliders.py, line 299) of one collider of the Space
Render ==
    /\ \E c \in Elems(get_colliders(static_colliders, dynamic_colliders,
                                      kinematic_colliders)) :
          seen' = [obj |-> c, pos |-> vecs[objs[c].pos], phase |-> pc.phase,
                   tick |-> ticks]
    /\ UNCHANGED <<vecs, objs, gravity, static_colliders, dynamic_colliders,
                   kinematic_colliders, ticks, last_op, old, mid, calls, pc>>
    /\ UNCHANGED promise

ThreadGravities == {Vector2D(0, 1)}

ThreadFloors == { BodyDef(4, 1, STATIC, One, One, 0, 3, Vector2D(0, 0), "ground") }

ThreadPlatforms ==
    { BodyDef(2, 2, KINEMATIC, One, One, x, 1, v, "moved_box") :
        x \in {1, 2}, v \in {Vector2D(1, 0), Vector2D(0, 0 - 1)} }

ThreadPersons ==
    { BodyDef(sz, sz, DYNAMIC, 0, One, x, y, Vector2D(vx, 0), "person") :
        sz \in {1, 2}, x \in 0..2, y \in 0..2, vx \in {0, 1} }

\* a body stamped by a mouse click (main.py, line 61), from its own template
ThreadBoxes == { BodyDef(1, 1, DYNAMIC, 0, One, 3, 1, Vector2D(0, 0), "box") }

InitThreads ==
    \E g \in ThreadGravities, f \in ThreadFloors, k \in ThreadPlatforms,
       d \in ThreadPersons :
        \/ SceneInit(g, <<f, k, d>>)
        \/ \E b \in ThreadBoxes : SceneInit(g, <<f, k, d, b>>)

NextThreads ==
    \/ BeginUpdate
    \/ StepKinematic
    \/ StepDynamic
    \/ StepDcRect
    \/ StepStaticTest
    \/ StepKinematicTest
    \/ Render

SpecThreads == InitThreads /\ [][NextThreads]_vars

(***************************************************************************)
(* SpecBounce: a Dynamic body of size 30x30 and bounciness 0.3 released at *)
(* (100, 0) above a Static floor at (0, 580) of size 1280x20, under        *)
(* gravity (0, 0.5).  Lengths and velocities are in units of 1 / PixelUnit *)
(* so that 0.5 and the velocities after a bounce are numbers of the model. *)
(***************************************************************************)
BounceTicks == 100

PixelUnit == 1000

BounceGravities == {Vector2D(0, PixelUnit \div 2)}

BounceFloors ==
    { BodyDef(1280 * PixelUnit, 20 * PixelUnit, STATIC, One, One,
              0, 580 * PixelUnit, Vector2D(0, 0), "floor") }

BounceBodies ==
    { BodyDef(30 * PixelUnit, 30 * PixelUnit, DYNAMIC, 3, One,
              100 * PixelUnit, y * PixelUnit, Vector2D(0, 0), "body") : y \in {0, 100} }

InitBounce ==
    \E g \in BounceGravities, f \in BounceFloors, d \in BounceBodies :
        SceneInit(g, <<f, d>>)

UpdateBounce == UpdateUpTo(BounceTicks)

NextBounce == UpdateBounce

SpecBounce == InitBounce /\ [][NextBounce]_vars

(***************************************************************************)
(* SpecPlatform: a Space without Static bodies: one Dynamic body and one   *)
(* Kinematic platform that stands still or moves sideways, up or down,     *)
(* anywhere in a small window; update().                                   *)
(***************************************************************************)
PlatformTicks == 1

PlatformBodies ==
    { BodyDef(sh[1], sh[2], KINEMATIC, One, r, x, y, v, "moved_box") :
        sh \in {<<3, 1>>, <<2, 2>>}, r \in {0, One}, x \in {1, 2}, y \in {2, 3},
        v \in {Vector2D(0, 0), Vector2D(1, 0), Vector2D(0, 0 - 1), Vector2D(0, 1),
              Vector2D(0 - 1, 0 - 1)} }

PlatformRiders ==
    { BodyDef(sz, sz, DYNAMIC, b, One, x, y, Vector2D(vx, vy), "person") :
        sz \in {1, 2}, b \in {0, One}, x \in 0..3, y \in 0..3,
        vx \in {0 - 1, 0, 1}, vy \in {0, 1} }

InitPlatform ==
    \E g \in {Vector2D(0, 0), Vector2D(0, 1)}, k \in PlatformBodies, d \in PlatformRiders :
        SceneInit(g, <<k, d>>)

NextPlatform == UpdateUpTo(PlatformTicks)

SpecPlatform == InitPlatform /\ [][NextPlatform]_vars

(***************************************************************************)
(* SpecRounding: the scene of SpecPlatform with coordinates where floats   *)
(* are two apart (between MaxExact and 2 * MaxExact): a platform at rest   *)
(* and a Dynamic body that comes down on it, without gravity.  The body    *)
(* starts at one of the numbers between MaxExact and MaxExact + 12.        *)
(***************************************************************************)
RoundingTicks == 2

RoundingPlatforms ==
    { BodyDef(8, h, KINEMATIC, One, One, 0, y, Vector2D(0, 0), "moved_box") :
        h \in {4, 8}, y \in {MaxExact + 6, MaxExact + 8} }

RoundingRiders ==
    { BodyDef(2, h, DYNAMIC, b, One, x, y, Vector2D(0, vy), "person") :
        h \in {1, 2, 3}, b \in {0, One}, x \in {0, 4},
        y \in { MaxExact + 2 * n : n \in 0..6 }, vy \in {0, 2} }

InitRounding ==
    \E k \in RoundingPlatforms, d \in RoundingRiders :
        SceneInit(Vector2D(0, 0), <<k, d>>)

NextRounding == UpdateUpTo(RoundingTicks)

SpecRounding == InitRounding /\ [][NextRounding]_vars

(***************************************************************************)
(* SpecPromise: one BasePromise of src/src/promises.py, called by          *)
(* PromiseCallers threads, each at most PromiseCalls times.  __call__      *)
(* holds no lock: its test of __started (line 67), its assignment (line    *)
(* 69) and Thread(...).start() (lines 70-75) are three steps of the        *)
(* calling thread, between which the other threads run.  A worker thread   *)
(* runs __thread_target (lines 53-64) in two steps, before and after the   *)
(* callable; cancel() may be called at any time.                           *)
(***************************************************************************)
PromiseCallers == 2

PromiseCalls == 2

\* BasePromise.__init__ (lines 14-26), with its callers and no worker yet
NewPromise ==
    [started |-> FALSE, cancelled |-> FALSE, completed |-> FALSE,
     result |-> None, error |-> None,
     callers |-> [t \in 1..PromiseCallers |-> [at |-> "idle", calls |-> 0]],
     workers |-> <<>>, executions |-> 0]

InitPromise ==
    /\ vecs = <<>>
    /\ objs = <<>>
    /\ gravity = Vector2D(0, 0)
    /\ static_colliders = <<>>
    /\ dynamic_colliders = <<>>
    /\ kinematic_colliders = <<>>
    /\ ticks = 0
    /\ last_op = Op("init", NoObj, None, FALSE)
    /\ old = [vecs |-> <<>>, objs |-> <<>>, static |-> <<>>, dynamic |-> <<>>,
              kinematic |-> <<>>]
    /\ mid = NoMid
    /\ calls = <<>>
    /\ pc = Idle
    /\ seen = NoSeen
    /\ promise = NewPromise

\* the variables of the collider engine
engine == <<vecs, objs, gravity, static_colliders, dynamic_colliders,
            kinematic_colliders, ticks, last_op, old, mid, calls, pc, seen>>

\* __call__, `if self.__started: return self` (lines 67-68)
CallTest ==
    \E t \in 1..PromiseCallers :
        /\ promise.callers[t].at = "idle"
        /\ promise.callers[t].calls < PromiseCalls
        /\ promise' = [promise EXCEPT !.callers[t] =
                          IF promise.started
                          THEN [at |-> "idle", calls |-> @.calls + 1]
                          ELSE [@ EXCEPT !.at = "set"]]
        /\ UNCHANGED engine

\* __call__, `self.__started = True` (line 69)
CallSet ==
    \E t \in 1..PromiseCallers :
        /\ promise.callers[t].at = "set"
        /\ promise' = [promise EXCEPT !.started = TRUE, !.callers[t].at = "start"]
        /\ UNCHANGED engine

\* __call__, `Thread(target=self.__thread_target, ...).start(); return self`
\* (lines 70-76)
CallStart ==
    \E t \in 1..PromiseCallers :
        /\ promise.callers[t].at = "start"
        /\ promise' = [promise EXCEPT !.workers = Append(@, "created"),
                                      !.callers[t] =
                                          [at |-> "idle", calls |-> @.calls + 1]]
        /\ UNCHANGED engine

\* cancel() (lines 49-51)
Cancel ==
    /\ ~promise.cancelled
    /\ promise' = [promise EXCEPT !.cancelled = TRUE]
    /\ UNCHANGED engine

\* __thread_target up to the call of the callable (lines 54-57): a promise
\* cancelled before the worker runs is completed with a CancelledError
ThreadTargetBegin ==
    \E w \in 1..Len(promise.workers) :
        /\ promise.workers[w] = "created"
        /\ promise' =
              IF promise.cancelled
              THEN [promise EXCEPT !.workers[w] = "done", !.error = "CancelledError",
                                   !.completed = TRUE]
              ELSE [promise EXCEPT !.workers[w] = "in_callable",
                                   !.executions = @ + 1]
        /\ UNCHANGED engine

\* __thread_target after the callable has returned (lines 58-64)
ThreadTargetEnd ==
    \E w \in 1..Len(promise.workers) :
        /\ promise.workers[w] = "in_callable"
        /\ promise' =
              IF promise.cancelled
              THEN [promise EXCEPT !.workers[w] = "done", !.error = "CancelledError",
                                   !.completed = TRUE]
              ELSE [promise EXCEPT !.workers[w] = "done", !.result = "result",
                                   !.completed = TRUE]
        /\ UNCHANGED engine

NextPromise ==
    \/ CallTest
    \/ CallSet
    \/ CallStart
    \/ Cancel
    \/ ThreadTargetBegin
    \/ ThreadTargetEnd

SpecPromise == InitPromise /\ [][NextPromise]_vars

(***************************************************************************)
(* Helpers of the properties.                                              *)
(***************************************************************************)
Distinct(list) == \A i, j \in 1..Len(list) : i # j => list[i] # list[j]

VAdd(a, b) == Vector2D(a.x + b.x, a.y + b.y)

\* C3: RectColliderObject.new does not mutate in place: after b = t.new(...)
\* every object that existed before the call (the template t and the bodies
\* derived earlier) has the position and velocity it had before the call; and
\* an update() that moves the bodies held by the Space changes the position
\* and velocity of no object outside the Space.
C3_DeriveIsFresh ==
    /\ last_op.name = "new" =>
          \A o \in 1..Len(old.objs) :
              /\ vecs[objs[o].pos] = old.vecs[objs[o].pos]
              /\ vecs[objs[o].speed] = old.vecs[objs[o].speed]
    /\ last_op.name = "update" =>
          \A o \in 1..Len(objs) :
              ~InList(get_colliders(static_colliders, dynamic_colliders,
                                    kinematic_colliders), o)
              => /\ vecs[objs[o].pos] = old.vecs[objs[o].pos]
                 /\ vecs[objs[o].speed] = old.vecs[objs[o].speed]

\* C7: registry idempotence: remove_by_id(id) right after add(body with id)
\* leaves get_by_id(id) returning none, and a remove_by_id(id) right after a
\* remove_by_id(id) raises nothing and leaves the three collections unchanged.
C7_RegistryIdempotence ==
    [][ /\ (/\ last_op.name = "add"
            /\ last_op'.name = "remove_by_id"
            /\ last_op'.id = last_op.id)
           => get_collider_by_id(objs', static_colliders', dynamic_colliders',
                                 kinematic_colliders', last_op.id) = NoObj
        /\ (/\ last_op.name = "remove_by_id"
            /\ last_op'.name = "remove_by_id"
            /\ last_op'.id = last_op.id)
           => /\ ~last_op'.err
              /\ static_colliders' = static_colliders
              /\ dynamic_colliders' = dynamic_colliders
              /\ kinematic_colliders' = kinematic_colliders ]_vars

\* C8: no operation of the Space (add, remove, remove_by_id, update) changes
\* the position, the size or the velocity of a Static body it holds.
C8_StaticNeverMoved ==
    last_op.name \in {"add", "remove", "remove_by_id", "update"} =>
        \A i \in 1..Len(static_colliders) :
            LET s == static_colliders[i]
            IN  /\ vecs[objs[s].pos] = old.vecs[old.objs[s].pos]
                /\ vecs[objs[s].speed] = old.vecs[old.objs[s].speed]
                /\ objs[s].width = old.objs[s].width
                /\ objs[s].height = old.objs[s].height

\* C8 witness: an update() in which a Dynamic body overlapped a Static body
\* after integration and was corrected.
C8_Witness ==
    /\ last_op.name = "update"
    /\ \E i \in 1..Len(static_colliders), j \in 1..Len(dynamic_colliders) :
          LET s == objs[static_colliders[i]]
              d == objs[dynamic_colliders[j]]
          IN  /\ collision_rect_rect(RectOf(mid, d), RectOf(mid, s))
              /\ vecs[d.pos] # mid[d.pos]

\* C9: one update() sets every Kinematic body's previous_position to the
\* position it had before the call and its position to that position plus
\* its own velocity, and leaves its velocity unchanged (the bodies held by
\* the Space being distinct objects).
C9_KinematicStep ==
    (last_op.name = "update" /\ Distinct(kinematic_colliders)) =>
        \A i \in 1..Len(kinematic_colliders) :
            LET k == objs[kinematic_colliders[i]]
            IN  /\ vecs[k.prev_pos] = old.vecs[k.pos]
                /\ vecs[k.pos] = VAdd(old.vecs[k.pos], old.vecs[k.speed])
                /\ vecs[k.speed] = old.vecs[k.speed]

\* C10: one update() adds gravity to every Dynamic body's velocity once and
\* then the new velocity to its position once: after the integration loops
\* velocity = old velocity + gravity and position = old position + that
\* velocity, for every Dynamic body of the Space (distinct objects).
C10_DynamicStep ==
    (last_op.name = "update" /\ Distinct(dynamic_colliders)) =>
        \A i \in 1..Len(dynamic_colliders) :
            LET d == objs[dynamic_colliders[i]]
            IN  /\ mid[d.speed] = VAdd(old.vecs[d.speed], gravity)
                /\ mid[d.pos] = VAdd(old.vecs[d.pos], VAdd(old.vecs[d.speed], gravity))

\* the AABB test update() makes between two objects, on heap v
OverlapsAt(v, a, b) == collision_rect_rect(RectOf(v, objs[a]), RectOf(v, objs[b]))

\* C1: non-penetration: a Dynamic body that overlaps exactly one Static body
\* before update() does not overlap that Static body after update().
C1_NonPenetration ==
    last_op.name = "update" =>
        \A d \in Elems(dynamic_colliders), s \in Elems(static_colliders) :
            (/\ OverlapsAt(old.vecs, d, s)
             /\ \A s2 \in Elems(static_colliders) : OverlapsAt(old.vecs, d, s2) => s2 = s)
            => ~OverlapsAt(vecs, d, s)

\* d moves right (velocity.x > 0, gravity.x = 0) towards the Static body s,
\* which is to its right, and the two overlap after this tick's integration
HitsWallOnRight(d, s) ==
    /\ gravity.x = 0
    /\ old.vecs[objs[d].speed].x > 0
    /\ right_axis_x(old.vecs, objs[d]) <= left_axis_x(old.vecs, objs[s])
    /\ OverlapsAt(mid, d, s)

\* s is the only body that d overlaps after integration
OnlyOverlap(d, s) ==
    \A o \in Elems(static_colliders) \cup Elems(kinematic_colliders) :
        OverlapsAt(mid, d, o) => o = s

\* s is a wall in front of d: taller than wide and spanning d's whole
\* height, d moving horizontally only
PlainWallHit(d, s) ==
    /\ objs[s].height > objs[s].width
    /\ up_axis_y(mid, objs[s]) <= up_axis_y(mid, objs[d])
    /\ down_axis_y(mid, objs[d]) <= down_axis_y(mid, objs[s])
    /\ mid[objs[d].speed].y = 0

\* C5 as stated: a Dynamic body moving right with velocity.x = v > 0 that
\* collides during an update() with a Static wall on its right ends that
\* update() with velocity.x = -v * bounciness (read on the plainest case: a
\* horizontal move into a tall wall, the only body hit).
C5_BounceAsStated ==
    last_op.name = "update" =>
        \A d \in Elems(dynamic_colliders), s \in Elems(static_colliders) :
            (HitsWallOnRight(d, s) /\ OnlyOverlap(d, s) /\ PlainWallHit(d, s))
            => vecs[objs[d].speed].x =
                   0 - Mul(old.vecs[objs[d].speed].x, objs[d].bouncy)

\* the overlap after integration is smaller along x than along y, and s is
\* the only body d overlaps
ResolvedOnXAgainstOnly(d, s) ==
    /\ OverlapX(mid, objs[d], objs[s]) < OverlapY(mid, objs[d], objs[s])
    /\ OnlyOverlap(d, s)

\* C5 amended: the same, when the overlap after integration is smaller along
\* x than along y and the wall is the only body the Dynamic body overlaps.
C5_BounceOnXBranch ==
    last_op.name = "update" =>
        \A d \in Elems(dynamic_colliders), s \in Elems(static_colliders) :
            (HitsWallOnRight(d, s) /\ ResolvedOnXAgainstOnly(d, s))
            => vecs[objs[d].speed].x =
                   0 - Mul(old.vecs[objs[d].speed].x, objs[d].bouncy)

\* C5 witness: such a hit, with a bounciness that sends the body back left
C5_Witness ==
    /\ last_op.name = "update"
    /\ \E d \in Elems(dynamic_colliders), s \in Elems(static_colliders) :
          /\ HitsWallOnRight(d, s)
          /\ ResolvedOnXAgainstOnly(d, s)
          /\ old.vecs[objs[d].speed].x = 2
          /\ vecs[objs[d].speed].x = 0 - 2

\* the centre of a is above the centre of b (dc.center.y < other.center.y)
CenterAbove(v, a, b) == center2(v, a).y < center2(v, b).y

\* a resolution call that ran with overlap_x = overlap_y and, for a
\* Kinematic body, not in the riding case
TieCall(c) ==
    /\ OverlapX(c.before, objs[c.dc], objs[c.other])
         = OverlapY(c.before, objs[c.dc], objs[c.other])
    /\ c.kind = "kinematic" => ~Riding(c.before, objs[c.dc], objs[c.other])

\* C6: whenever overlap_x = overlap_y, static resolution and the kinematic
\* fallback take the vertical branch: position.x is unchanged, the body is
\* put on top of or below the other one, velocity.y follows the vertical
\* rules and velocity.x is not reflected (static landing on top multiplies it
\* by the Static body's resistance.x, every other case leaves it).
C6_TieTakesVerticalBranch ==
    \A i \in 1..Len(calls) :
        LET c  == calls[i]
            dc == objs[c.dc]
            o  == objs[c.other]
            above == CenterAbove(c.before, dc, o)
        IN  TieCall(c) =>
            /\ c.after[dc.pos].x = c.before[dc.pos].x
            /\ c.after[dc.pos].y = IF above THEN up_axis_y(c.before, o) - dc.height
                                   ELSE down_axis_y(c.before, o)
            /\ c.after[dc.speed].x = IF above /\ c.kind = "static"
                                     THEN Mul(c.before[dc.speed].x, c.before[o.resistance].x)
                                     ELSE c.before[dc.speed].x
            /\ c.after[dc.speed].y = IF above /\ c.kind = "kinematic" THEN 0
                                     ELSE Mul(c.before[dc.speed].y, 0 - dc.bouncy)

\* C6 witness: an update() with a tie against a Static body and a tie in the
\* kinematic fallback, the body having a horizontal velocity to reflect
C6_Witness ==
    /\ \E i \in 1..Len(calls) :
          /\ calls[i].kind = "static"
          /\ TieCall(calls[i])
          /\ OverlapX(calls[i].before, objs[calls[i].dc], objs[calls[i].other]) > 0
          /\ calls[i].before[objs[calls[i].dc].speed].x > 0
          /\ objs[calls[i].dc].bouncy > 0
    /\ \E i \in 1..Len(calls) :
          /\ calls[i].kind = "kinematic"
          /\ TieCall(calls[i])

\* d stands on k: its bottom is k's top and their horizontal extents overlap
StandsOn(v, d, k) ==
    /\ down_axis_y(v, objs[d]) = up_axis_y(v, objs[k])
    /\ right_axis_x(v, objs[d]) > left_axis_x(v, objs[k])
    /\ left_axis_x(v, objs[d]) < right_axis_x(v, objs[k])
    /\ v[objs[d].speed].y = 0

\* C2: platform carry: while a Dynamic body rests on top of a Kinematic
\* platform whose velocity is (3, 0) (it stands on it before the update()
\* and still stands on it after), every update() increases the body's
\* x-position by exactly 3, whatever its own horizontal velocity.
C2_PlatformCarry ==
    last_op.name = "update" =>
        \A d \in Elems(dynamic_colliders), k \in Elems(kinematic_colliders) :
            (/\ StandsOn(old.vecs, d, k)
             /\ StandsOn(vecs, d, k)
             /\ old.vecs[objs[k].speed] = Vector2D(3, 0)
             /\ gravity.y > 0)
            => vecs[objs[d].pos].x = old.vecs[objs[d].pos].x + 3

\* d is at rest on the floor f: position.y = floor.top - height, velocity.y = 0
AtRest(v, d, f) ==
    /\ v[objs[d].pos].y = up_axis_y(v, objs[f]) - objs[d].height
    /\ v[objs[d].speed].y = 0

\* C4 as stated: a Dynamic body with bounciness 0 dropped onto a Static floor
\* is at rest on it (position.y = floor.top - height, velocity.y = 0) after a
\* bounded number of update() calls, and once at rest after an update() it is
\* at rest after every later update().
C4_RestingAsStated ==
    \A d \in Elems(dynamic_colliders), f \in Elems(static_colliders) :
        objs[d].bouncy = 0 =>
            /\ ticks = DropTicks => AtRest(vecs, d, f)
            /\ (last_op.name = "update" /\ AtRest(old.vecs, d, f)) => AtRest(vecs, d, f)

\* after integration d overlaps f in the landing-on-top case of the vertical
\* branch: overlap_y <= overlap_x and d's centre above f's centre
LandsOnTop(v, d, f) ==
    /\ OverlapsAt(v, d, f)
    /\ OverlapY(v, objs[d], objs[f]) <= OverlapX(v, objs[d], objs[f])
    /\ CenterAbove(v, objs[d], objs[f])

\* gravity pulls a body at rest on f into the landing-on-top case again
RestIsStable(v, d, f) ==
    /\ gravity.y <= OverlapX(v, objs[d], objs[f])
    /\ 2 * gravity.y < objs[d].height + objs[f].height

\* C4 amended: a Dynamic body with bounciness 0 and no horizontal velocity,
\* alone with a Static floor under downward gravity, is at rest on the floor
\* at the end of every update() in which it overlaps the floor in the
\* landing-on-top case; and once at rest it is at rest after the next
\* update() when gravity.y is at most its horizontal overlap with the floor
\* and 2 * gravity.y < body.height + floor.height.
C4_RestingStability ==
    last_op.name = "update" =>
        \A d \in Elems(dynamic_colliders), f \in Elems(static_colliders) :
            (objs[d].bouncy = 0 /\ old.vecs[objs[d].speed].x = 0 /\ gravity.x = 0) =>
                /\ LandsOnTop(mid, d, f) => AtRest(vecs, d, f)
                /\ (AtRest(old.vecs, d, f) /\ RestIsStable(old.vecs, d, f))
                   => AtRest(vecs, d, f)

\* C4 witness: the body fell onto the floor in an earlier tick, and in this
\* update() gravity pulled it into the floor and it was put back at rest
C4_Witness ==
    /\ last_op.name = "update"
    /\ ticks = DropTicks
    /\ Len(calls) = 1
    /\ \E d \in Elems(dynamic_colliders), f \in Elems(static_colliders) :
          /\ objs[d].bouncy = 0
          /\ AtRest(old.vecs, d, f)
          /\ RestIsStable(old.vecs, d, f)
          /\ mid[objs[d].pos].y > old.vecs[objs[d].pos].y
          /\ AtRest(vecs, d, f)

\* C11: partition by kind: every entry of a collection of the Space has the
\* kind of that collection (static, dynamic or kinematic), and no body is an
\* entry of two collections, after any sequence of add, add_colliders,
\* remove, remove_by_id and update().
C11_PartitionByKind ==
    /\ \A c \in Elems(static_colliders) : objs[c].type = STATIC
    /\ \A c \in Elems(dynamic_colliders) : objs[c].type = DYNAMIC
    /\ \A c \in Elems(kinematic_colliders) : objs[c].type = KINEMATIC
    /\ Elems(static_colliders) \cap Elems(dynamic_colliders) = {}
    /\ Elems(static_colliders) \cap Elems(kinematic_colliders) = {}
    /\ Elems(dynamic_colliders) \cap Elems(kinematic_colliders) = {}

\* C11 witness: one add_colliders call has put bodies of two kinds into the
\* Space, each in its own collection
C11_Witness ==
    /\ last_op.name = "add_colliders"
    /\ old.static = <<>> /\ old.dynamic = <<>> /\ old.kinematic = <<>>
    /\ NumColliders = 2
    /\ Len(dynamic_colliders) = 1

\* C12: identifiers are unique within a Space: no two distinct bodies held
\* by the Space have the same (caller-given) id, so that get_by_id(id)
\* identifies at most one body.
C12_IdsUnique ==
    LET all == get_colliders(static_colliders, dynamic_colliders, kinematic_colliders)
    IN  \A i, j \in 1..Len(all) :
            (all[i] # all[j] /\ objs[all[i]].id # None)
            => objs[all[i]].id # objs[all[j]].id

\* the four strict inequalities on the edges of a and b
StrictlyInside(v, a, b) ==
    /\ left_axis_x(v, a) < right_axis_x(v, b)
    /\ right_axis_x(v, a) > left_axis_x(v, b)
    /\ up_axis_y(v, a) < down_axis_y(v, b)
    /\ down_axis_y(v, a) > up_axis_y(v, b)

\* a and b meet along an edge or at a corner and nowhere else
OnlyTouching(v, a, b) ==
    /\ left_axis_x(v, a) <= right_axis_x(v, b)
    /\ right_axis_x(v, a) >= left_axis_x(v, b)
    /\ up_axis_y(v, a) <= down_axis_y(v, b)
    /\ down_axis_y(v, a) >= up_axis_y(v, b)
    /\ \/ left_axis_x(v, a) = right_axis_x(v, b)
       \/ right_axis_x(v, a) = left_axis_x(v, b)
       \/ up_axis_y(v, a) = down_axis_y(v, b)
       \/ down_axis_y(v, a) = up_axis_y(v, b)

\* update() resolved d against o
Resolved(d, o) == \E i \in 1..Len(calls) : calls[i].dc = d /\ calls[i].other = o

\* C13: the overlap test update() makes is true exactly when a.left < b.right,
\* a.right > b.left, a.top < b.bottom and a.bottom > b.top: update() resolves
\* the pair exactly then, two rectangles that only touch along an edge or at
\* a corner are not overlapping, and the test gives the same answer with its
\* arguments exchanged.
C13_OverlapTest ==
    last_op.name = "update" =>
        \A d \in Elems(dynamic_colliders),
           o \in Elems(static_colliders) \cup Elems(kinematic_colliders) :
            LET a == objs[d]
                b == objs[o]
            IN  /\ Resolved(d, o) <=> StrictlyInside(mid, a, b)
                /\ collision_rect_rect(RectOf(mid, a), RectOf(mid, b))
                      <=> StrictlyInside(mid, a, b)
                /\ collision_rect_rect(RectOf(mid, b), RectOf(mid, a))
                      <=> collision_rect_rect(RectOf(mid, a), RectOf(mid, b))
                /\ OnlyTouching(mid, a, b) => ~Resolved(d, o)

\* C13 witness: an update() on two rectangles that touch at a corner only,
\* and made no resolution
C13_Witness ==
    /\ last_op.name = "update"
    /\ calls = <<>>
    /\ \E d \in Elems(dynamic_colliders), o \in Elems(kinematic_colliders) :
          /\ right_axis_x(mid, objs[d]) = left_axis_x(mid, objs[o])
          /\ down_axis_y(mid, objs[d]) = up_axis_y(mid, objs[o])

\* the three collections are what they were before the last operation
ListsUnchanged ==
    /\ static_colliders = old.static
    /\ dynamic_colliders = old.dynamic
    /\ kinematic_colliders = old.kinematic

\* C14: remove(body) for a body that is not in the Space fails (ValueError)
\* and leaves the three collections unchanged; remove_by_id(id) for an id no
\* body of the Space has raises nothing and leaves them unchanged.
C14_RemoveNonMember ==
    /\ (/\ last_op.name = "remove"
        /\ ~InList(get_colliders(old.static, old.dynamic, old.kinematic), last_op.obj))
       => (last_op.err /\ ListsUnchanged)
    /\ (/\ last_op.name = "remove_by_id"
        /\ get_collider_by_id(old.objs, old.static, old.dynamic, old.kinematic,
                              last_op.id) = NoObj)
       => (~last_op.err /\ ListsUnchanged)

\* C14 witness: remove(body) failed on a Space that holds other bodies, one
\* of them of the same kind as the body
C14_Witness ==
    /\ last_op.name = "remove"
    /\ last_op.err
    /\ NumColliders = 2
    /\ \E c \in Elems(get_colliders(static_colliders, dynamic_colliders,
                                     kinematic_colliders)) :
          c # last_op.obj /\ objs[c].type = objs[last_op.obj].type

\* C15: a body with a negative width or height is rejected at construction:
\* no body held by the Space when update() runs has a negative size.
C15_NoNegativeSize ==
    last_op.name = "update" =>
        \A c \in Elems(get_colliders(static_colliders, dynamic_colliders,
                                      kinematic_colliders)) :
            objs[c].width >= 0 /\ objs[c].height >= 0

EdgeNames == {"up_axis_y", "down_axis_y", "left_axis_x", "right_axis_x"}

\* reading the edge `name` of object o on heap v
ReadEdge(v, o, name) ==
    CASE name = "up_axis_y"    -> up_axis_y(v, o)
      [] name = "down_axis_y"  -> down_axis_y(v, o)
      [] name = "left_axis_x"  -> left_axis_x(v, o)
      [] name = "right_axis_x" -> right_axis_x(v, o)

\* the last edge assignment changed nothing but one coordinate of the
\* body's position: not the size, not the other coordinate, no other vector
OnlyOneCoordinateWritten ==
    LET o == objs[last_op.obj]
    IN  /\ objs = old.objs
        /\ \A i \in 1..Len(vecs) : i # o.pos => vecs[i] = old.vecs[i]
        /\ last_op.name \in {"up_axis_y", "down_axis_y"} => vecs[o.pos].x = old.vecs[o.pos].x
        /\ last_op.name \in {"left_axis_x", "right_axis_x"} => vecs[o.pos].y = old.vecs[o.pos].y

\* C16 as stated: after setting top, bottom, left or right to V, reading the
\* same edge returns V, and nothing but that coordinate of position changed.
C16_RoundTripAsStated ==
    last_op.name \in EdgeNames =>
        /\ ReadEdge(vecs, objs[last_op.obj], last_op.name) = last_op.val
        /\ OnlyOneCoordinateWritten

\* the subtraction V - size made by the bottom / right setter is exact
ExactShift(val, size) == fl(val - size) = val - size

\* C16 amended: setting top or left to V stores V and reading returns V;
\* setting bottom = Y stores position.y = Y - height and setting right = X
\* stores position.x = X - width, rounded as floats are, and reading the same
\* edge returns the value set whenever that subtraction is exact; in every
\* case the size, the other coordinate of position and everything else of
\* the body are unchanged.
C16_EdgeRoundTrip ==
    last_op.name \in EdgeNames =>
        LET o == objs[last_op.obj]
            V == last_op.val
        IN  /\ last_op.name = "up_axis_y" =>
                   (vecs[o.pos].y = V /\ up_axis_y(vecs, o) = V)
            /\ last_op.name = "left_axis_x" =>
                   (vecs[o.pos].x = V /\ left_axis_x(vecs, o) = V)
            /\ last_op.name = "down_axis_y" =>
                   /\ vecs[o.pos].y = fl(V - o.height)
                   /\ ExactShift(V, o.height) => down_axis_y(vecs, o) = V
            /\ last_op.name = "right_axis_x" =>
                   /\ vecs[o.pos].x = fl(V - o.width)
                   /\ ExactShift(V, o.width) => right_axis_x(vecs, o) = V
            /\ OnlyOneCoordinateWritten

\* C16 witness: the bottom was set to a value that moved the body, and
\* reading the bottom returns that value
C16_Witness ==
    /\ last_op.name = "down_axis_y"
    /\ last_op.val = 6
    /\ objs[last_op.obj].height = 3
    /\ vecs[objs[last_op.obj].pos].y = 3
    /\ old.vecs[objs[last_op.obj].pos].y # 3
    /\ down_axis_y(vecs, objs[last_op.obj]) = 6

\* the steps of the running update() so far, of one kind
StepsOfKind(kinds) == { n \in 1..Len(calls) : calls[n].kind \in kinds }

Integrations == {"integrate_kinematic", "integrate_dynamic"}
Resolutions == {"static", "kinematic"}

\* C17: step order inside update(): when a Dynamic body is integrated every
\* Kinematic body of the Space has been integrated, and none is integrated
\* afterwards; when a collision is resolved every Dynamic body has been
\* integrated, and no body is integrated afterwards; and for each Dynamic
\* body no Static resolution comes after one of its Kinematic resolutions.
C17_StepOrder ==
    /\ StepsOfKind({"integrate_dynamic"}) # {} =>
           Cardinality(StepsOfKind({"integrate_kinematic"})) = Len(kinematic_colliders)
    /\ StepsOfKind(Resolutions) # {} =>
           Cardinality(StepsOfKind({"integrate_dynamic"})) = Len(dynamic_colliders)
    /\ \A a, b \in 1..Len(calls) :
           a < b =>
              /\ ~(calls[a].kind = "integrate_dynamic" /\ calls[b].kind = "integrate_kinematic")
              /\ ~(calls[a].kind \in Resolutions /\ calls[b].kind \in Integrations)
              /\ ~(/\ calls[a].kind = "kinematic"
                   /\ calls[b].kind = "static"
                   /\ calls[a].dc = calls[b].dc)

\* C17 witness: an update() has returned in which two Dynamic bodies were
\* integrated and one of them was resolved against a Static body and then
\* against a Kinematic body
C17_Witness ==
    /\ pc = Idle
    /\ ticks = 1
    /\ Cardinality(StepsOfKind({"integrate_dynamic"})) = 2
    /\ \E a, b \in 1..Len(calls) :
          /\ a < b
          /\ calls[a].kind = "static"
          /\ calls[b].kind = "kinematic"
          /\ calls[a].dc = calls[b].dc

\* C18: an update() runs to completion before the render loop reads body
\* positions: a position the render loop read since the last update() began
\* is, once that update() has returned, either the position the body had
\* before it or the position the body has after it, never an intermediate one.
C18_RenderSeesWholeTicks ==
    (pc = Idle /\ seen # NoSeen /\ ticks > 0) =>
        (seen.tick = ticks =>
            \/ seen.pos = old.vecs[objs[seen.obj].pos]
            \/ seen.pos = vecs[objs[seen.obj].pos])

\* C20: a Dynamic body is resolved against a Static or Kinematic body only
\* on overlap: at the moment each _process_* call of an update() runs, the
\* two rectangles overlap (overlap_x > 0 and overlap_y > 0), also when the
\* Dynamic body was corrected against another body earlier in the tick.
C20_ResolvedOnlyOnOverlap ==
    \A n \in 1..Len(calls) :
        calls[n].kind \in Resolutions =>
            /\ OverlapX(calls[n].before, objs[calls[n].dc], objs[calls[n].other]) > 0
            /\ OverlapY(calls[n].before, objs[calls[n].dc], objs[calls[n].other]) > 0

\* "a small epsilon": a twentieth of a pixel per tick, a tenth of what
\* gravity adds to the velocity in one tick
Epsilon == PixelUnit \div 20

\* C19: scenario: with gravity (0, 0.5), a Static floor at (0, 580, 1280, 20)
\* and a Dynamic body 30x30 of bounciness 0.3 released at (100, 0), after
\* enough ticks position.y after update() is 550 and the magnitude of
\* velocity.y has fallen below a small epsilon.
C19_BounceSettles ==
    ticks = BounceTicks =>
        \A d \in Elems(dynamic_colliders) :
            /\ vecs[objs[d].pos].y = 550 * PixelUnit
            /\ Abs(vecs[objs[d].speed].y) < Epsilon


\* the 'was riding' test as stated, for a call of kinematic resolution:
\* the Dynamic body's bottom before this update() was at or above the
\* platform's top before this update(), and the horizontal extents overlap
WasRidingAsStated(c) ==
    /\ down_axis_y(old.vecs, objs[c.dc]) <= up_axis_y(old.vecs, objs[c.other])
    /\ right_axis_x(c.before, objs[c.dc]) > left_axis_x(c.before, objs[c.other])
    /\ left_axis_x(c.before, objs[c.dc]) < right_axis_x(c.before, objs[c.other])

\* C21: the 'was riding' test of kinematic resolution holds exactly when the
\* Dynamic body's bottom edge as it was last frame (before this tick's
\* integration) was at or above the platform's top edge of last frame and
\* the body's horizontal extent overlaps the platform's horizontal extent.
C21_WasRidingUsesLastFrame ==
    \A n \in 1..Len(calls) :
        calls[n].kind = "kinematic" =>
            (WasAbove(calls[n].before, objs[calls[n].dc], objs[calls[n].other])
                <=> WasRidingAsStated(calls[n]))


\* platform_move of a call of kinematic resolution
PlatformMove(c) ==
    Vector2D(c.before[objs[c.other].pos].x - c.before[objs[c.other].prev_pos].x,
             c.before[objs[c.other].pos].y - c.before[objs[c.other].prev_pos].y)

\* the riding response: bottom on the platform's top, then moved by
\* platform_move; velocity.y = 0 and velocity.x multiplied by resistance.x
Carried(c) ==
    LET dc == objs[c.dc]
        k  == objs[c.other]
    IN  /\ c.after[dc.pos] =
              Vector2D(c.before[dc.pos].x + PlatformMove(c).x,
                       (up_axis_y(c.before, k) - dc.height) + PlatformMove(c).y)
        /\ c.after[dc.speed] =
              Vector2D(Mul(c.before[dc.speed].x, c.before[k.resistance].x), 0)

\* no carry step: the body is put against one side of the platform without
\* platform_move being added, and velocity.x is left or reflected
NotCarried(c) ==
    LET dc == objs[c.dc]
        k  == objs[c.other]
        p  == c.before[dc.pos]
    IN  /\ c.after[dc.pos] \in
              { Vector2D(left_axis_x(c.before, k) - dc.width, p.y),
                Vector2D(right_axis_x(c.before, k), p.y),
                Vector2D(p.x, up_axis_y(c.before, k) - dc.height),
                Vector2D(p.x, down_axis_y(c.before, k)) }
        /\ c.after[dc.speed].x \in
              { c.before[dc.speed].x, Mul(c.before[dc.speed].x, 0 - dc.bouncy) }

\* the riding case as stated: was riding, overlap_y > 0 and velocity.y >= 0
RidingAsStated(c) ==
    /\ WasRidingAsStated(c)
    /\ OverlapY(c.before, objs[c.dc], objs[c.other]) > 0
    /\ c.before[objs[c.dc].speed].y >= 0

\* C22: riding response: when the body was riding, overlap_y > 0 and
\* velocity.y >= 0, kinematic resolution sets the body's bottom to the
\* platform's top, then adds platform_move to the body's position, sets
\* velocity.y to 0 and multiplies velocity.x by the platform's resistance.x;
\* in every other case none of these carry steps is applied.
C22_RidingResponse ==
    \A n \in 1..Len(calls) :
        calls[n].kind = "kinematic" =>
            IF RidingAsStated(calls[n]) THEN Carried(calls[n])
            ELSE NotCarried(calls[n])

\* the same with the test the code makes (was_above on the body's bottom
\* after integration) in place of the stated one
RidingResponseOfCode ==
    \A n \in 1..Len(calls) :
        calls[n].kind = "kinematic" =>
            IF Riding(calls[n].before, objs[calls[n].dc], objs[calls[n].other])
            THEN Carried(calls[n])
            ELSE NotCarried(calls[n])


\* a call of kinematic resolution in which the riding case applies neither
\* by the test the code makes nor by the stated one
FallbackCall(c) ==
    /\ c.kind = "kinematic"
    /\ ~Riding(c.before, objs[c.dc], objs[c.other])
    /\ ~RidingAsStated(c)

\* the call is in the landing-on-top case of the vertical branch
LandingCall(c) ==
    /\ ~StaticTakesXBranch(OverlapX(c.before, objs[c.dc], objs[c.other]),
                           OverlapY(c.before, objs[c.dc], objs[c.other]))
    /\ CenterAbove(c.before, objs[c.dc], objs[c.other])

\* C23: when the riding case does not apply, kinematic resolution produces
\* the same position and velocity for the Dynamic body as static resolution
\* would against a Static body with the same geometry and coefficients, with
\* one exception: when landing on top, velocity.y is set to 0 instead of
\* being multiplied by -bounciness.
C23_FallbackAsStatic ==
    \A n \in 1..Len(calls) :
        FallbackCall(calls[n]) =>
            LET c  == calls[n]
                dc == objs[c.dc]
                s  == ProcessStaticCollision(c.before, dc, objs[c.other])
            IN  /\ c.after[dc.pos] = s[dc.pos]
                /\ c.after[dc.speed] =
                      IF LandingCall(c) THEN Vector2D(s[dc.speed].x, 0)
                      ELSE s[dc.speed]


\* a call of static resolution, by the branch the stated conditions select:
\* "x" when overlap_x < overlap_y, else "top" when the Dynamic body's centre
\* is above the Static body's centre, else "ceiling"
StaticCase(c) ==
    LET dc == objs[c.dc]
        s  == objs[c.other]
    IN  IF OverlapX(c.before, dc, s) < OverlapY(c.before, dc, s) THEN "x"
        ELSE IF 2 * c.before[dc.pos].y + dc.height < 2 * c.before[s.pos].y + s.height
             THEN "top"
             ELSE "ceiling"

\* the Dynamic body's centre is left of the Static body's centre
CenterLeft(c) ==
    2 * c.before[objs[c.dc].pos].x + objs[c.dc].width
        < 2 * c.before[objs[c.other].pos].x + objs[c.other].width

\* C24: static resolution on the x-axis (overlap_x < overlap_y): if the
\* Dynamic body's center.x is less than the Static body's center.x its right
\* edge is set to the Static body's left edge, otherwise its left edge is set
\* to the Static body's right edge; velocity.x is multiplied by -bounciness
\* of the Dynamic body; position.y and velocity.y are unchanged.
C24_StaticXBranch ==
    \A n \in 1..Len(calls) :
        (calls[n].kind = "static" /\ StaticCase(calls[n]) = "x") =>
            LET c  == calls[n]
                dc == objs[c.dc]
                s  == objs[c.other]
            IN  /\ IF CenterLeft(c)
                   THEN c.after[dc.pos].x + dc.width = c.before[s.pos].x
                   ELSE c.after[dc.pos].x = c.before[s.pos].x + s.width
                /\ c.after[dc.speed].x = Mul(c.before[dc.speed].x, 0 - dc.bouncy)
                /\ c.after[dc.pos].y = c.before[dc.pos].y
                /\ c.after[dc.speed].y = c.before[dc.speed].y

\* C24 witness: an update() with a hit from the left (right edge put on the
\* wall's left edge) in which a velocity.x of 2 was reflected to -2
C24_Witness ==
    \E n \in 1..Len(calls) :
        /\ calls[n].kind = "static"
        /\ StaticCase(calls[n]) = "x"
        /\ CenterLeft(calls[n])
        /\ OverlapX(calls[n].before, objs[calls[n].dc], objs[calls[n].other]) > 0
        /\ calls[n].before[objs[calls[n].dc].speed].x = 2
        /\ calls[n].after[objs[calls[n].dc].speed].x = 0 - 2
        /\ calls[n].after[objs[calls[n].dc].pos].x # calls[n].before[objs[calls[n].dc].pos].x

\* C25: static resolution on the y-axis, landing on top (overlap_x >=
\* overlap_y and the Dynamic body's center.y less than the Static body's
\* center.y): the Dynamic body's bottom edge is set to the Static body's top,
\* velocity.x is multiplied by the Static body's resistance.x, then
\* velocity.y is multiplied by -bounciness of the Dynamic body; position.x is
\* unchanged.
C25_StaticLanding ==
    \A n \in 1..Len(calls) :
        (calls[n].kind = "static" /\ StaticCase(calls[n]) = "top") =>
            LET c  == calls[n]
                dc == objs[c.dc]
                s  == objs[c.other]
            IN  /\ c.after[dc.pos].y + dc.height = c.before[s.pos].y
                /\ c.after[dc.speed].x = Mul(c.before[dc.speed].x, c.before[s.resistance].x)
                /\ c.after[dc.speed].y = Mul(c.before[dc.speed].y, 0 - dc.bouncy)
                /\ c.after[dc.pos].x = c.before[dc.pos].x

\* C25 witness: a landing on a Static body of resistance 0 that stopped a
\* horizontal velocity, moved the body up and reflected its fall
C25_Witness ==
    \E n \in 1..Len(calls) :
        /\ calls[n].kind = "static"
        /\ StaticCase(calls[n]) = "top"
        /\ OverlapY(calls[n].before, objs[calls[n].dc], objs[calls[n].other]) > 0
        /\ calls[n].before[objs[calls[n].other].resistance].x = 0
        /\ calls[n].before[objs[calls[n].dc].speed].x # 0
        /\ calls[n].after[objs[calls[n].dc].speed].x = 0
        /\ calls[n].before[objs[calls[n].dc].speed].y > 0
        /\ calls[n].after[objs[calls[n].dc].speed].y < 0
        /\ calls[n].after[objs[calls[n].dc].pos].y < calls[n].before[objs[calls[n].dc].pos].y

\* C26: static resolution on the y-axis, ceiling hit (overlap_x >= overlap_y
\* and the Dynamic body's center.y not less than the Static body's
\* center.y): the Dynamic body's top edge is set to the Static body's bottom
\* and velocity.y is multiplied by -bounciness; no friction is applied, so
\* velocity.x and position.x are unchanged.
C26_StaticCeiling ==
    \A n \in 1..Len(calls) :
        (calls[n].kind = "static" /\ StaticCase(calls[n]) = "ceiling") =>
            LET c  == calls[n]
                dc == objs[c.dc]
                s  == objs[c.other]
            IN  /\ c.after[dc.pos].y = c.before[s.pos].y + s.height
                /\ c.after[dc.speed].y = Mul(c.before[dc.speed].y, 0 - dc.bouncy)
                /\ c.after[dc.speed].x = c.before[dc.speed].x
                /\ c.after[dc.pos].x = c.before[dc.pos].x

\* C26 witness: a ceiling hit against a Static body of resistance 0 by a
\* body that kept its horizontal velocity and was moved down
C26_Witness ==
    \E n \in 1..Len(calls) :
        /\ calls[n].kind = "static"
        /\ StaticCase(calls[n]) = "ceiling"
        /\ OverlapY(calls[n].before, objs[calls[n].dc], objs[calls[n].other]) > 0
        /\ calls[n].before[objs[calls[n].other].resistance].x = 0
        /\ calls[n].before[objs[calls[n].dc].speed].x # 0
        /\ calls[n].after[objs[calls[n].dc].speed].x = calls[n].before[objs[calls[n].dc].speed].x
        /\ calls[n].after[objs[calls[n].dc].pos].y > calls[n].before[objs[calls[n].dc].pos].y


\* C27: non-penetration against a platform: in a Space with no Static
\* bodies, a Dynamic body that overlaps exactly one Kinematic body after
\* integration does not overlap that Kinematic body when update() returns,
\* in the riding case as well as in the fallback case.
C27_PlatformNonPenetration ==
    (last_op.name = "update" /\ static_colliders = <<>>) =>
        \A d \in Elems(dynamic_colliders), k \in Elems(kinematic_colliders) :
            (/\ OverlapsAt(mid, d, k)
             /\ \A k2 \in Elems(kinematic_colliders) : OverlapsAt(mid, d, k2) => k2 = k)
            => ~OverlapsAt(vecs, d, k)


\* update() has put d on top of a Static body: a call of static resolution
\* on d in the landing-on-top case
SnappedOnTop(d) ==
    \E n \in 1..Len(calls) :
        /\ calls[n].kind = "static"
        /\ calls[n].dc = d
        /\ StaticCase(calls[n]) = "top"

\* C28: with bounciness in [0, 1], a Dynamic body that update() has snapped
\* onto the top of a Static body in a tick ends that tick with
\* velocity.y <= 0, whatever its velocity before the tick and however many
\* Static bodies it overlapped.
C28_NoVelocityIntoSurface ==
    last_op.name = "update" =>
        \A d \in Elems(dynamic_colliders) :
            (/\ objs[d].bouncy >= 0
             /\ objs[d].bouncy <= One
             /\ kinematic_colliders = <<>>
             /\ SnappedOnTop(d))
            => vecs[objs[d].speed].y <= 0


\* the heap after the last update() had d been the only Dynamic body of
\* the Space
UpdatedAlone(d) ==
    UpdateRun(old.vecs, old.objs, old.static, <<d>>, old.kinematic, gravity).v

\* C29: Dynamic bodies do not interact: the position and velocity of a
\* Dynamic body after update() depend only on its own state, gravity and
\* the Static and Kinematic bodies: they are what they would be without the
\* other Dynamic bodies of the Space.
C29_DynamicsIndependent ==
    (last_op.name = "update" /\ Distinct(dynamic_colliders)) =>
        \A d \in Elems(dynamic_colliders) :
            /\ vecs[objs[d].pos] = UpdatedAlone(d)[objs[d].pos]
            /\ vecs[objs[d].speed] = UpdatedAlone(d)[objs[d].speed]


\* C30: a BasePromise runs its callable at most once: however many times
\* the promise object is called to start it, including from several threads
\* at once, only one worker thread is created and the callable executes
\* once.
C30_RunsAtMostOnce ==
    promise # NoPromise =>
        /\ Len(promise.workers) <= 1
        /\ promise.executions <= 1

====
